---- MODULE Spec2Model ----
(***************************************************************************)
(* Burst editorial news platform: the request handlers of news/views.py    *)
(* and the form validation of news/forms.py as a state machine over the    *)
(* database tables (users, publishers and their teams, articles,           *)
(* subscriptions, newsletters).  Every action is one POST request, or one  *)
(* database statement of a request where requests may interleave.  The     *)
(* variable "last" is the response of the most recent request (the flash   *)
(* message the handler queued, and what it rendered).                      *)
(*                                                                         *)
(* news/models.py is not part of the sources at hand.  What the handlers   *)
(* use of it (role predicates, the default status, Article.approve, the    *)
(* Subscription constraints) is modelled from the specification and is     *)
(* marked "models.py" below.                                               *)
(***************************************************************************)
EXTENDS Integers, Sequences, FiniteSets, TLC

----------------------------------------------------------------------------
(* Bounds of the model *)

\* articles created in one run
MaxArticles == 1

\* primary keys handed out to Subscription rows in one run
MaxSubId == 2

\* newsletters created in one run: more than a page of the reader's list
MaxNewsletters == 52

\* the newsletters of a run whose author and publisher vary; the newsletters
\* after them are of one journalist and one publisher
MixedNewsletters == 2

\* password reset tokens issued in one run
MaxTokens == 2

----------------------------------------------------------------------------
(* The population *)

None == "None"

UserIds == {"r1", "r2", "j1", "j2", "e1", "e2", "p1", "p2", "a1"}

\* the users with Django's is_staff flag, which no handler here sets
StaffIds == {"a1"}

\* the publishing houses there are from the start
PublisherIds == {"P1", "P2"}

\* Publisher rows in primary-key order (what .first() sees); P3 is the house
\* a request may create, "P3-2" a second house of that name
PublisherOrder == <<"P1", "P2", "P3", "P3-2">>

\* the name of a Publisher row: "P3-2" is a second row named P3
PublisherName(pk) == IF pk = "P3-2" THEN "P3" ELSE pk

\* usernames free for registration
NewUserIds == {"n1", "n2"}

\* User.ROLE_CHOICES (models.py)
RoleChoices == {"reader", "journalist", "editor", "publisher", "staff"}

\* publisher names as typed into a form
NameInputs == {"P3", " P3 ", "p1", "   ", ""}

\* passwords as typed into a form
InitialPassword == "initial-pw"
PasswordInputs == {"new-pass-A", "new-pass-B", "short", ""}

\* min_length of ResetPasswordForm.new_password1
MinPasswordLength == 8

\* email addresses as typed into the forgot-password form
EmailInputs == {"r1@burst.test", "j1@burst.test", "nobody@burst.test", "not-an-email"}

Contents == {"text1", "text2"}

\* a POSTed title/content that the form rejects (a required field left empty)
Blank == ""

Sessions == {"s1", "s2"}

\* Article.STATUS_CHOICES (models.py)
StatusChoices == {"draft", "pending", "published", "rejected"}

\* the default of Article.status (models.py)
DefaultStatus == "draft"

\* the slice [:50] of the reader's newsletter list
PageSize == 50

\* the slice [:20] of the newsletter list of everybody else
GuestPageSize == 20

VARIABLES
    role,           \* User.role of every registered user
    password,       \* User.password of every registered user
    tokens,         \* the PasswordResetToken table, a sequence indexed by token
    owner,          \* Publisher.owner
    editors,        \* Publisher.editors (many-to-many)
    journalists,    \* Publisher.journalists (many-to-many)
    articles,       \* the Article table, a sequence indexed by primary key
    scope,          \* history: per article, the publisher last set by its author
                    \* or by an editor of the publisher it then had
    subscriptions,  \* the Subscription table, a set of rows
    nextSubId,      \* the next Subscription primary key
    newsletters,    \* the Newsletter table, a sequence in order of created_at
    req,            \* per session, the request in flight between two statements
    last            \* the response of the most recent request

vars == <<role, password, tokens, owner, editors, journalists, articles, scope,
          subscriptions, nextSubId, newsletters, req, last>>

accountVars == <<password, tokens>>
teamVars == <<role, accountVars, owner, editors, journalists>>
articleVars == <<articles, scope>>
subVars == <<subscriptions, nextSubId>>

----------------------------------------------------------------------------
(* Records *)

NoRow == [author |-> None, publisher |-> None, content |-> Blank,
          status |-> DefaultStatus, is_approved |-> FALSE,
          approved_by |-> None, approved_at |-> None]

NoToken == [user |-> None, is_used |-> FALSE, expired |-> FALSE]

Idle == [op |-> "idle", actor |-> None, art |-> 0, row |-> NoRow,
         publisher |-> None, journalist |-> None, pc |-> "idle",
         token |-> 0, tokenRow |-> NoToken,
         member |-> None, team |-> None, name |-> "", pw |-> "",
         sub |-> 0, publishers |-> {}, journalists |-> {}]

NoResponse == [op |-> "none", actor |-> None, outcome |-> "none", art |-> 0,
               publisher |-> None, journalist |-> None, listing |-> <<>>,
               existed |-> FALSE, lost |-> FALSE, sub |-> 0,
               member |-> None, team |-> None, token |-> 0]

Response(op, actor, outcome) ==
    [NoResponse EXCEPT !.op = op, !.actor = actor, !.outcome = outcome]

----------------------------------------------------------------------------
(* Role predicates (models.py: User.is_reader and friends) *)

\* request.user of a request without a session
AnonymousUser == "AnonymousUser"

\* request.user.is_authenticated
is_authenticated(u) == u \in DOMAIN role

is_reader(u) == role[u] = "reader"
is_journalist(u) == role[u] = "journalist"
is_editor(u) == role[u] = "editor"
is_publisher(u) == role[u] = "publisher"

\* staff_required: user.is_authenticated and user.is_staff
staff_required(u) == u \in DOMAIN role /\ u \in StaffIds

\* request.user.owned_publishers.first()
OwnedFirst(u) ==
    LET owned == {i \in 1..Len(PublisherOrder) :
                     /\ PublisherOrder[i] \in DOMAIN owner
                     /\ owner[PublisherOrder[i]] = u}
    IN IF owned = {} THEN None
       ELSE PublisherOrder[CHOOSE i \in owned : \A k \in owned : i <= k]

----------------------------------------------------------------------------
(* Initial state: registered users and two publishing houses without teams *)

Init ==
    /\ role = [u \in UserIds |->
                 CASE u \in {"r1", "r2"} -> "reader"
                   [] u \in {"j1", "j2"} -> "journalist"
                   [] u \in {"e1", "e2"} -> "editor"
                   [] u \in {"p1", "p2"} -> "publisher"
                   [] OTHER -> "staff"]
    /\ password = [u \in UserIds |-> InitialPassword]
    /\ tokens = <<>>
    /\ owner = [p \in PublisherIds |-> IF p = "P1" THEN "p1" ELSE "p2"]
    /\ editors = [p \in PublisherIds |-> {}]
    /\ journalists = [p \in PublisherIds |-> {}]
    /\ articles = <<>>
    /\ scope = <<>>
    /\ subscriptions = {}
    /\ nextSubId = 1
    /\ newsletters = <<>>
    /\ req = [s \in Sessions |-> Idle]
    /\ last = NoResponse

----------------------------------------------------------------------------
(* publisher_dashboard: the owner adds a team member *)

AddMemberResponse(u, username, r, outcome) ==
    [Response("add_member", u, outcome)
        EXCEPT !.publisher = OwnedFirst(u), !.member = username, !.team = r]

\* AddTeamMemberForm.is_valid(): a username, and a role of the two choices
AddTeamMemberFormValid(username, r) ==
    username # "" /\ r \in {"editor", "journalist"}

\* publisher.editors or publisher.journalists, by the role of the form
Team(publisher, r) ==
    IF r = "editor" THEN editors[publisher] ELSE journalists[publisher]

\* publisher_dashboard up to the add: the role test, the publishing house, the
\* form, the user, the user's role and the membership test.  The outcome is
\* the answer, or "proceed"
AddMemberGate(u, username, r) ==
    IF ~is_publisher(u) THEN "only_publishers"
    ELSE IF OwnedFirst(u) = None THEN "no_publishing_house"
    ELSE IF ~AddTeamMemberFormValid(username, r) THEN "form_invalid"
    ELSE IF username \notin DOMAIN role THEN "user_not_found"
    ELSE IF role[username] # r THEN "role_mismatch"
    ELSE IF username \in Team(OwnedFirst(u), r) THEN "already_member"
    ELSE "proceed"

AddMemberRefusal(u, username, r) ==
    IF AddMemberGate(u, username, r) \in {"only_publishers", "no_publishing_house"}
    THEN Response("add_member", u, AddMemberGate(u, username, r))
    ELSE AddMemberResponse(u, username, r, AddMemberGate(u, username, r))

\* publisher_dashboard, the whole POST request with add_member
publisher_dashboard(u, username, r) ==
    LET publisher == OwnedFirst(u) IN
    /\ UNCHANGED <<role, accountVars, owner, articleVars, subVars, newsletters, req>>
    /\ IF AddMemberGate(u, username, r) # "proceed"
       THEN /\ last' = AddMemberRefusal(u, username, r)
            /\ UNCHANGED <<editors, journalists>>
       ELSE IF r = "editor"
       THEN /\ editors' = [editors EXCEPT ![publisher] = @ \cup {username}]
            /\ last' = AddMemberResponse(u, username, r, "added")
            /\ UNCHANGED journalists
       ELSE /\ journalists' = [journalists EXCEPT ![publisher] = @ \cup {username}]
            /\ last' = AddMemberResponse(u, username, r, "added")
            /\ UNCHANGED editors

\* publisher_dashboard as two steps, for requests that overlap: up to the
\* membership test (filter(pk=user.pk).exists()) ...
publisher_dashboard_test(s, u, username, r) ==
    /\ req[s] = Idle
    /\ UNCHANGED <<teamVars, articleVars, subVars, newsletters>>
    /\ IF AddMemberGate(u, username, r) # "proceed"
       THEN /\ last' = AddMemberRefusal(u, username, r)
            /\ UNCHANGED req
       ELSE /\ req' = [req EXCEPT ![s] =
                         [Idle EXCEPT !.op = "add_member", !.actor = u,
                                      !.publisher = OwnedFirst(u),
                                      !.member = username, !.team = r,
                                      !.pc = "add"]]
            /\ UNCHANGED last

\* ... and the add on the publisher loaded then, which inserts the membership
\* unless it is there, and the success message
publisher_dashboard_add(s) ==
    LET r == req[s] IN
    /\ r.op = "add_member"
    /\ r.pc = "add"
    /\ req' = [req EXCEPT ![s] = Idle]
    /\ UNCHANGED <<role, accountVars, owner, articleVars, subVars, newsletters>>
    /\ IF r.team = "editor"
       THEN /\ editors' = [editors EXCEPT ![r.publisher] = @ \cup {r.member}]
            /\ UNCHANGED journalists
       ELSE /\ journalists' = [journalists EXCEPT ![r.publisher] = @ \cup {r.member}]
            /\ UNCHANGED editors
    /\ last' = [Response("add_member", r.actor, "added")
                  EXCEPT !.publisher = r.publisher, !.member = r.member,
                         !.team = r.team]

----------------------------------------------------------------------------
(* Registration and the Publisher records *)

\* str.strip() and forms.CharField(strip=True) on the names typed here
Strip(str) ==
    CASE str = " P3 " -> "P3"
      [] str = "   " -> ""
      [] OTHER -> str

\* the case folding of name__iexact on the names typed here
Lower(str) ==
    CASE str = "P1" -> "p1"
      [] str = "P2" -> "p2"
      [] str = "P3" -> "p3"
      [] OTHER -> str

\* Publisher.objects.filter(name__iexact=publisher_name).exists()
PublisherNameExists(name) ==
    \E q \in DOMAIN owner : Lower(PublisherName(q)) = Lower(name)

\* UserRegistrationForm.is_valid(): a free username, a role of the choices, a
\* publisher of the table or none, matching passwords, and clean()
UserRegistrationFormValid(username, r, pub, name, p1, p2) ==
    /\ username # ""
    /\ username \notin DOMAIN role
    /\ r \in RoleChoices
    /\ pub \in DOMAIN owner \cup {None}
    /\ p1 # ""
    /\ p1 = p2
    /\ r = "editor" => pub # None
    /\ r = "publisher" => (Strip(name) # "" /\ ~PublisherNameExists(Strip(name)))

\* the branch register takes after the user is saved
RegisterTeam(r, pub) ==
    IF r = "publisher" THEN "owner"
    ELSE IF r = "editor" /\ pub # None THEN "editors"
    ELSE IF r = "journalist" /\ pub # None THEN "journalists"
    ELSE "none"

RegisterResponse(username, r, pub, outcome) ==
    [Response("register", username, outcome)
        EXCEPT !.publisher = pub, !.member = username, !.team = r]

\* register: the account is created; a publisher-role user gets a new
\* publishing house, an editor or journalist joins the chosen publisher's team
register(username, r, pub, name, p1, p2) ==
    /\ UNCHANGED <<tokens, articleVars, subVars, newsletters, req>>
    /\ IF ~UserRegistrationFormValid(username, r, pub, name, p1, p2)
       THEN /\ last' = RegisterResponse(username, r, pub, "form_invalid")
            /\ UNCHANGED <<role, password, owner, editors, journalists>>
       ELSE /\ role' = (username :> r) @@ role
            /\ password' = (username :> p1) @@ password
            /\ CASE RegisterTeam(r, pub) = "owner" ->
                      /\ owner' = (Strip(name) :> username) @@ owner
                      /\ editors' = (Strip(name) :> {}) @@ editors
                      /\ journalists' = (Strip(name) :> {}) @@ journalists
                      /\ last' = RegisterResponse(username, r, Strip(name),
                                                   "publishing_house_created")
                 [] RegisterTeam(r, pub) = "editors" ->
                      /\ editors' = [editors EXCEPT ![pub] = @ \cup {username}]
                      /\ UNCHANGED <<owner, journalists>>
                      /\ last' = RegisterResponse(username, r, pub, "now_editor")
                 [] RegisterTeam(r, pub) = "journalists" ->
                      /\ journalists' = [journalists EXCEPT ![pub] = @ \cup {username}]
                      /\ UNCHANGED <<owner, editors>>
                      /\ last' = RegisterResponse(username, r, pub, "now_journalist")
                 [] OTHER ->
                      /\ UNCHANGED <<owner, editors, journalists>>
                      /\ last' = RegisterResponse(username, r, pub, "account_created")

\* the primary key of a Publisher row inserted under that name
NewPublisherKey(name) == IF name \in DOMAIN owner THEN "P3-2" ELSE name

\* register as three steps, for requests that overlap: form.is_valid() ...
register_validate(s, username, r, pub, name, p1, p2) ==
    /\ req[s] = Idle
    /\ UNCHANGED <<teamVars, articleVars, subVars, newsletters>>
    /\ IF ~UserRegistrationFormValid(username, r, pub, name, p1, p2)
       THEN /\ last' = RegisterResponse(username, r, pub, "form_invalid")
            /\ UNCHANGED req
       ELSE /\ req' = [req EXCEPT ![s] =
                         [Idle EXCEPT !.op = "register", !.actor = username,
                                      !.team = r, !.publisher = pub,
                                      !.name = Strip(name), !.pw = p1,
                                      !.pc = "save"]]
            /\ UNCHANGED last

\* ... form.save(), the INSERT of the user, which the unique username may
\* refuse with an IntegrityError nobody catches ...
register_save(s) ==
    LET r == req[s] IN
    /\ r.op = "register"
    /\ r.pc = "save"
    /\ UNCHANGED <<tokens, owner, editors, journalists, articleVars, subVars, newsletters>>
    /\ IF r.actor \in DOMAIN role
       THEN /\ req' = [req EXCEPT ![s] = Idle]
            /\ last' = RegisterResponse(r.actor, r.team, r.publisher, "integrity_error")
            /\ UNCHANGED <<role, password>>
       ELSE /\ role' = (r.actor :> r.team) @@ role
            /\ password' = (r.actor :> r.pw) @@ password
            /\ req' = [req EXCEPT ![s].pc = "team"]
            /\ UNCHANGED last

\* ... and the branch on the role.  Whether Publisher.name is unique is up to
\* models.py: a second house of a name either is inserted or is refused with
\* an IntegrityError, which leaves the user without a house
register_team(s) ==
    LET r == req[s] IN
    /\ r.op = "register"
    /\ r.pc = "team"
    /\ req' = [req EXCEPT ![s] = Idle]
    /\ UNCHANGED <<role, accountVars, articleVars, subVars, newsletters>>
    /\ CASE RegisterTeam(r.team, r.publisher) = "owner" ->
              \/ /\ NewPublisherKey(r.name) \notin DOMAIN owner
                 /\ owner' = (NewPublisherKey(r.name) :> r.actor) @@ owner
                 /\ editors' = (NewPublisherKey(r.name) :> {}) @@ editors
                 /\ journalists' = (NewPublisherKey(r.name) :> {}) @@ journalists
                 /\ last' = RegisterResponse(r.actor, r.team, NewPublisherKey(r.name),
                                              "publishing_house_created")
              \/ /\ r.name \in DOMAIN owner
                 /\ UNCHANGED <<owner, editors, journalists>>
                 /\ last' = RegisterResponse(r.actor, r.team, None, "integrity_error")
         [] RegisterTeam(r.team, r.publisher) = "editors" ->
              /\ editors' = [editors EXCEPT ![r.publisher] = @ \cup {r.actor}]
              /\ UNCHANGED <<owner, journalists>>
              /\ last' = RegisterResponse(r.actor, r.team, r.publisher, "now_editor")
         [] RegisterTeam(r.team, r.publisher) = "journalists" ->
              /\ journalists' = [journalists EXCEPT ![r.publisher] = @ \cup {r.actor}]
              /\ UNCHANGED <<owner, editors>>
              /\ last' = RegisterResponse(r.actor, r.team, r.publisher, "now_journalist")
         [] OTHER ->
              /\ UNCHANGED <<owner, editors, journalists>>
              /\ last' = RegisterResponse(r.actor, r.team, r.publisher, "account_created")

\* PublisherForm.is_valid(): a name; the owner is optional and, if given, a
\* user with role publisher
PublisherFormValid(name, o) ==
    /\ Strip(name) # ""
    /\ o = None \/ (o \in DOMAIN role /\ role[o] = "publisher")

PublisherResponse(op, u, pub, outcome) ==
    [Response(op, u, outcome) EXCEPT !.publisher = pub]

\* publisher_create: staff only; the form's owner becomes the owner
publisher_create(u, name, o) ==
    /\ UNCHANGED <<role, accountVars, articleVars, subVars, newsletters, req>>
    /\ IF ~staff_required(u)
       THEN /\ last' = PublisherResponse("publisher_create", u, None, "login_redirect")
            /\ UNCHANGED <<owner, editors, journalists>>
       ELSE IF ~PublisherFormValid(name, o)
       THEN /\ last' = PublisherResponse("publisher_create", u, None, "form_invalid")
            /\ UNCHANGED <<owner, editors, journalists>>
       ELSE /\ owner' = (Strip(name) :> o) @@ owner
            /\ editors' = (Strip(name) :> {}) @@ editors
            /\ journalists' = (Strip(name) :> {}) @@ journalists
            /\ last' = PublisherResponse("publisher_create", u, Strip(name), "created")

\* publisher_edit: staff only; the form writes its fields, the owner among
\* them (name, description and website are POSTed as they stand)
publisher_edit(u, pk, o) ==
    /\ UNCHANGED <<role, accountVars, editors, journalists, articleVars, subVars,
                   newsletters, req>>
    /\ IF ~staff_required(u)
       THEN /\ last' = PublisherResponse("publisher_edit", u, pk, "login_redirect")
            /\ UNCHANGED owner
       ELSE IF pk \notin DOMAIN owner
       THEN /\ last' = PublisherResponse("publisher_edit", u, pk, "not_found")
            /\ UNCHANGED owner
       ELSE IF ~PublisherFormValid(pk, o)
       THEN /\ last' = PublisherResponse("publisher_edit", u, pk, "form_invalid")
            /\ UNCHANGED owner
       ELSE /\ owner' = [owner EXCEPT ![pk] = o]
            /\ last' = PublisherResponse("publisher_edit", u, pk, "updated")

----------------------------------------------------------------------------
(* Password reset *)

\* EmailField: the addresses typed here that are well-formed
ForgotPasswordFormValid(email) == email # "not-an-email"

\* User.objects.get(email=email) over the addresses of the registered users
UserByEmail(email) ==
    CASE email = "r1@burst.test" -> "r1"
      [] email = "j1@burst.test" -> "j1"
      [] OTHER -> None

\* forgot_password: a fresh token for the account with that address
forgot_password(email) ==
    /\ Len(tokens) < MaxTokens
    /\ UNCHANGED <<role, password, owner, editors, journalists, articleVars, subVars,
                   newsletters, req>>
    /\ IF ~ForgotPasswordFormValid(email)
       THEN /\ last' = Response("forgot_password", None, "form_invalid")
            /\ UNCHANGED tokens
       ELSE IF UserByEmail(email) = None
       THEN /\ last' = Response("forgot_password", None, "no_account")
            /\ UNCHANGED tokens
       ELSE /\ tokens' = Append(tokens, [NoToken EXCEPT !.user = UserByEmail(email)])
            /\ last' = [Response("forgot_password", UserByEmail(email), "link_sent")
                          EXCEPT !.token = Len(tokens) + 1]

\* time passes the expiry window of a token
token_expires(t) ==
    /\ t \in 1..Len(tokens)
    /\ ~tokens[t].expired
    /\ tokens' = [tokens EXCEPT ![t].expired = TRUE]
    /\ UNCHANGED <<role, password, owner, editors, journalists, articleVars, subVars,
                   newsletters, req, last>>

\* PasswordResetToken.is_valid (models.py / specification 3): unused and
\* within the expiry window
is_valid(row) == ~row.is_used /\ ~row.expired

\* ResetPasswordForm.is_valid(): both fields, min_length, and clean()
ResetPasswordFormValid(p1, p2) ==
    /\ p1 # ""
    /\ Len(p1) >= MinPasswordLength
    /\ p2 # ""
    /\ p1 = p2

ResetResponse(user, t, outcome) ==
    [Response("reset_password", user, outcome) EXCEPT !.token = t]

\* reset_password up to the loaded token: objects.get(token=token) and
\* is_valid() ...
reset_password_load(s, t) ==
    /\ req[s] = Idle
    /\ UNCHANGED <<teamVars, articleVars, subVars, newsletters>>
    /\ IF t \notin 1..Len(tokens)
       THEN /\ last' = ResetResponse(None, t, "invalid_token")
            /\ UNCHANGED req
       ELSE IF ~is_valid(tokens[t])
       THEN /\ last' = ResetResponse(tokens[t].user, t, "invalid_or_expired")
            /\ UNCHANGED req
       ELSE /\ req' = [req EXCEPT ![s] =
                         [Idle EXCEPT !.op = "reset_password", !.actor = tokens[t].user,
                                      !.token = t, !.tokenRow = tokens[t],
                                      !.pc = "save"]]
            /\ UNCHANGED last

\* ... from the form to set_password and user.save(), the UPDATE of the user ...
reset_password_save(s, p1, p2) ==
    LET r == req[s] IN
    /\ r.op = "reset_password"
    /\ r.pc = "save"
    /\ UNCHANGED <<role, tokens, owner, editors, journalists, articleVars, subVars,
                   newsletters>>
    /\ IF ~ResetPasswordFormValid(p1, p2)
       THEN /\ req' = [req EXCEPT ![s] = Idle]
            /\ last' = ResetResponse(r.actor, r.token, "form_invalid")
            /\ UNCHANGED password
       ELSE /\ password' = [password EXCEPT ![r.tokenRow.user] = p1]
            /\ req' = [req EXCEPT ![s].pc = "mark_used"]
            /\ UNCHANGED last

\* ... and is_used = True with reset_token.save(), the UPDATE of the token as
\* it was loaded, and the success message
reset_password_mark_used(s) ==
    LET r == req[s] IN
    /\ r.op = "reset_password"
    /\ r.pc = "mark_used"
    /\ req' = [req EXCEPT ![s] = Idle]
    /\ UNCHANGED <<role, password, owner, editors, journalists, articleVars, subVars,
                   newsletters>>
    /\ tokens' = [tokens EXCEPT ![r.token] = [r.tokenRow EXCEPT !.is_used = TRUE,
                                               !.expired = tokens[r.token].expired]]
    /\ last' = ResetResponse(r.actor, r.token, "reset")

\* the account-recovery requests of two sessions, overlapping
NextReset ==
    \/ \E email \in EmailInputs : forgot_password(email)
    \/ \E t \in 1..MaxTokens : token_expires(t)
    \/ \E s \in Sessions, t \in 1..MaxTokens : reset_password_load(s, t)
    \/ \E s \in Sessions, p \in PasswordInputs : reset_password_save(s, p, p)
    \/ \E s \in Sessions : reset_password_save(s, "new-pass-A", "new-pass-B")
    \/ \E s \in Sessions : reset_password_mark_used(s)

SpecReset == Init /\ [][NextReset]_vars

----------------------------------------------------------------------------
(* The teams, one request at a time *)

\* registrations, the staff's publisher forms and the owners' dashboards.  A
\* request that needs a login comes from a registered user
NextTeam ==
    \/ \E u \in {"n1", "e1"}, r \in {"reader", "editor", "journalist"}, pub \in {"P1", None} :
          register(u, r, pub, "", "new-pass-A", "new-pass-A")
    \/ \E name \in NameInputs :
          register("n2", "publisher", None, name, "new-pass-A", "new-pass-A")
    \/ register("n1", "editor", "P2", "", "new-pass-A", "new-pass-B")
    \/ \E u \in {"a1", "p1"}, name \in {"P3", " P3 ", "   "}, o \in {"p2", "e1", None} :
          /\ Strip(name) \notin DOMAIN owner
          /\ publisher_create(u, name, o)
    \/ \E u \in {"a1", "p1"}, pk \in {"P1", "P3"}, o \in {"p2", "e1"} :
          publisher_edit(u, pk, o)
    \/ \E u \in {"p1", "p2"}, username \in {"e1", "n1"}, r \in {"editor", "journalist"} :
          publisher_dashboard(u, username, r)
    \/ publisher_dashboard("p1", "ghost", "editor")
    \/ publisher_dashboard("e1", "e1", "editor")
    \/ \E r \in {"publisher", "reader"} : publisher_dashboard("p1", "e1", r)
    \/ publisher_dashboard("p1", "", "editor")

SpecTeam == Init /\ [][NextTeam]_vars

\* dashboard and registration requests of two sessions, overlapping
NextTeamRace ==
    \/ \E s \in Sessions, username \in {"e1", "n1"}, r \in {"editor", "journalist"} :
          publisher_dashboard_test(s, "p1", username, r)
    \/ \E s \in Sessions : publisher_dashboard_add(s)
    \/ \E s \in Sessions, u \in NewUserIds :
          register_validate(s, u, "publisher", None, "P3", "new-pass-A", "new-pass-A")
    \/ \E s \in Sessions, r \in {"editor", "journalist", "reader"} :
          register_validate(s, "n1", r, "P1", "", "new-pass-A", "new-pass-A")
    \/ \E s \in Sessions : register_save(s)
    \/ \E s \in Sessions : register_team(s)

SpecTeamRace == Init /\ [][NextTeamRace]_vars

----------------------------------------------------------------------------
(* Articles *)

ArticleIds == 1..MaxArticles

Exists(a) == a \in 1..Len(articles)

\* ArticleForm.is_valid(): title and content are required, publisher is optional
ArticleFormValid(pub, c) == pub \in DOMAIN owner \cup {None} /\ c \in Contents

\* create_article: only journalists; the author is the requesting user and
\* the status is the model's default
create_article(u, pub, c) ==
    /\ Len(articles) < MaxArticles
    /\ UNCHANGED <<teamVars, subVars, newsletters, req>>
    /\ IF ~is_journalist(u)
       THEN /\ last' = Response("create_article", u, "only_journalists")
            /\ UNCHANGED <<articles, scope>>
       ELSE IF ~ArticleFormValid(pub, c)
       THEN /\ last' = Response("create_article", u, "form_invalid")
            /\ UNCHANGED <<articles, scope>>
       ELSE /\ articles' = Append(articles,
                               [NoRow EXCEPT !.author = u, !.publisher = pub,
                                             !.content = c])
            /\ scope' = Append(scope, pub)
            /\ last' = [Response("create_article", u, "created")
                          EXCEPT !.art = Len(articles) + 1, !.publisher = pub]

\* the permission test of edit_article: the author, or any user with role editor
EditAllowed(u, row) == u = row.author \/ is_editor(u)

\* whether u is the author or an editor of the publisher the article is scoped to
InScope(u, a) ==
    \/ u = articles[a].author
    \/ scope[a] # None /\ u \in editors[scope[a]]

\* ArticleForm.save() on an instance: the fields of Meta.fields are set on it
\* (title/content and the publisher; a POSTed status is no field of the form)
\* and the instance is written with every column it was loaded with
ArticleFormSave(row, pub, c, st) ==
    [row EXCEPT !.publisher = pub, !.content = c]

\* edit_article: the permission test, then the form; st is a status field in
\* the POST data
edit_article(u, a, pub, c, st) ==
    /\ UNCHANGED <<teamVars, subVars, newsletters, req>>
    /\ IF ~Exists(a)
       THEN /\ last' = [Response("edit_article", u, "not_found") EXCEPT !.art = a]
            /\ UNCHANGED <<articles, scope>>
       ELSE IF ~EditAllowed(u, articles[a])
       THEN /\ last' = [Response("edit_article", u, "no_permission")
                          EXCEPT !.art = a, !.publisher = articles[a].publisher]
            /\ UNCHANGED <<articles, scope>>
       ELSE IF ~ArticleFormValid(pub, c)
       THEN /\ last' = [Response("edit_article", u, "form_invalid")
                          EXCEPT !.art = a, !.publisher = articles[a].publisher]
            /\ UNCHANGED <<articles, scope>>
       ELSE /\ articles' = [articles EXCEPT ![a] = ArticleFormSave(@, pub, c, st)]
            /\ scope' = IF InScope(u, a) THEN [scope EXCEPT ![a] = pub] ELSE scope
            /\ last' = [Response("edit_article", u, "updated")
                          EXCEPT !.art = a, !.publisher = articles[a].publisher]

\* edit_article as two steps, for requests that overlap: get_object_or_404 and
\* the permission test ...
edit_article_load(s, u, a) ==
    /\ req[s] = Idle
    /\ UNCHANGED <<teamVars, articleVars, subVars, newsletters>>
    /\ IF ~Exists(a)
       THEN /\ last' = [Response("edit_article", u, "not_found") EXCEPT !.art = a]
            /\ UNCHANGED req
       ELSE IF ~EditAllowed(u, articles[a])
       THEN /\ last' = [Response("edit_article", u, "no_permission")
                          EXCEPT !.art = a, !.publisher = articles[a].publisher]
            /\ UNCHANGED req
       ELSE /\ req' = [req EXCEPT ![s] =
                         [Idle EXCEPT !.op = "edit_article", !.actor = u,
                                      !.art = a, !.row = articles[a],
                                      !.publisher = articles[a].publisher,
                                      !.pc = "save"]]
            /\ UNCHANGED last

\* ... and the form with form.save(), which writes the instance loaded then
edit_article_save(s, pub, c, st) ==
    LET r == req[s] IN
    /\ r.op = "edit_article"
    /\ r.pc = "save"
    /\ req' = [req EXCEPT ![s] = Idle]
    /\ UNCHANGED <<teamVars, subVars, newsletters>>
    /\ IF ~ArticleFormValid(pub, c)
       THEN /\ last' = [Response("edit_article", r.actor, "form_invalid")
                          EXCEPT !.art = r.art, !.publisher = r.publisher]
            /\ UNCHANGED <<articles, scope>>
       ELSE /\ articles' = [articles EXCEPT ![r.art] = ArticleFormSave(r.row, pub, c, st)]
            /\ scope' = IF InScope(r.actor, r.art)
                         THEN [scope EXCEPT ![r.art] = pub] ELSE scope
            /\ last' = [Response("edit_article", r.actor, "updated")
                          EXCEPT !.art = r.art, !.publisher = r.publisher]

\* submit (models.py / specification 4.2): draft -> pending, by the author only
submit(u, a) ==
    /\ UNCHANGED <<teamVars, scope, subVars, newsletters, req>>
    /\ IF ~Exists(a)
       THEN /\ last' = [Response("submit", u, "not_found") EXCEPT !.art = a]
            /\ UNCHANGED articles
       ELSE IF u # articles[a].author
       THEN /\ last' = [Response("submit", u, "no_permission") EXCEPT !.art = a]
            /\ UNCHANGED articles
       ELSE IF articles[a].status # "draft"
       THEN /\ last' = [Response("submit", u, "invalid_transition") EXCEPT !.art = a]
            /\ UNCHANGED articles
       ELSE /\ articles' = [articles EXCEPT ![a].status = "pending"]
            /\ last' = [Response("submit", u, "submitted") EXCEPT !.art = a]

\* a variant of the publisher test that accepts an editor of any publisher
ApproveScopeDenied_AnyPublisher(u, row) ==
    row.publisher # None /\ \A p \in DOMAIN editors : u \notin editors[p]

\* the publisher test of approve_article: skipped when the article has no publisher
ApproveScopeDenied(u, row) ==
    row.publisher # None /\ u \notin editors[row.publisher]

\* ArticleApprovalForm.is_valid(): status is a required choice field
ArticleApprovalFormValid(st) == st \in StatusChoices

\* ModelForm validation copies the POSTed fields onto the loaded instance
ConstructInstance(row, st, flag) ==
    [row EXCEPT !.status = st, !.is_approved = flag]

\* Article.approve (models.py / specification 4.2): published, with the marker
\* (approved_at is the time of the call; the model keeps only that it is set)
approve(row, editor) ==
    [row EXCEPT !.status = "published", !.is_approved = TRUE,
                !.approved_by = editor, !.approved_at = "stamped"]

\* approve_article before the form: role test, load, publisher test.  The
\* outcome is the refusal, or "proceed"
ApproveGate(u, a) ==
    IF ~is_editor(u) THEN "only_editors"
    ELSE IF ~Exists(a) THEN "not_found"
    ELSE IF ApproveScopeDenied(u, articles[a]) THEN "not_your_publisher"
    ELSE "proceed"

ApproveResponse(u, a, pub, outcome) ==
    [Response("approve_article", u, outcome) EXCEPT !.art = a, !.publisher = pub]

\* approve_article, the whole POST request: the loaded article, with the form's
\* fields and the approval, is written back
approve_article(u, a, st, flag) ==
    LET pub == IF Exists(a) THEN articles[a].publisher ELSE None IN
    /\ UNCHANGED <<teamVars, scope, subVars, newsletters, req>>
    /\ IF ApproveGate(u, a) # "proceed"
       THEN /\ last' = ApproveResponse(u, a, pub, ApproveGate(u, a))
            /\ UNCHANGED articles
       ELSE IF ~ArticleApprovalFormValid(st)
       THEN /\ last' = ApproveResponse(u, a, pub, "form_invalid")
            /\ UNCHANGED articles
       ELSE /\ articles' = [articles EXCEPT ![a] =
                              approve(ConstructInstance(articles[a], st, flag), u)]
            /\ last' = ApproveResponse(u, a, pub, "approved")

\* approve_article as its statements, for requests that overlap: the role test
\* and get_object_or_404, the SELECT of the article ...
approve_article_load(s, u, a) ==
    /\ req[s] = Idle
    /\ UNCHANGED <<teamVars, articleVars, subVars, newsletters>>
    /\ IF ~is_editor(u)
       THEN /\ last' = ApproveResponse(u, a, IF Exists(a) THEN articles[a].publisher
                                                          ELSE None, "only_editors")
            /\ UNCHANGED req
       ELSE IF ~Exists(a)
       THEN /\ last' = ApproveResponse(u, a, None, "not_found")
            /\ UNCHANGED req
       ELSE /\ req' = [req EXCEPT ![s] =
                         [Idle EXCEPT !.op = "approve_article", !.actor = u,
                                      !.art = a, !.row = articles[a],
                                      !.publisher = articles[a].publisher,
                                      !.pc = "publisher"]]
            /\ UNCHANGED last

\* ... article.publisher, the SELECT of the publisher the loaded row names; a
\* row without a publisher skips the test ...
approve_article_publisher(s) ==
    /\ req[s].op = "approve_article"
    /\ req[s].pc = "publisher"
    /\ req' = [req EXCEPT ![s].pc = IF req[s].row.publisher = None
                                    THEN "save" ELSE "editors"]
    /\ UNCHANGED <<teamVars, articleVars, subVars, newsletters, last>>

\* ... editors.filter(pk=request.user.pk).exists(), on the editor set as it is
\* by now ...
approve_article_editors(s) ==
    /\ req[s].op = "approve_article"
    /\ req[s].pc = "editors"
    /\ UNCHANGED <<teamVars, articleVars, subVars, newsletters>>
    /\ IF ApproveScopeDenied(req[s].actor, req[s].row)
       THEN /\ req' = [req EXCEPT ![s] = Idle]
            /\ last' = ApproveResponse(req[s].actor, req[s].art, req[s].publisher,
                                       "not_your_publisher")
       ELSE /\ req' = [req EXCEPT ![s].pc = "save"]
            /\ UNCHANGED last

\* ... and from the form to article.save(), which writes the loaded instance
approve_article_save(s, st, flag) ==
    /\ req[s].op = "approve_article"
    /\ req[s].pc = "save"
    /\ req' = [req EXCEPT ![s] = Idle]
    /\ UNCHANGED <<teamVars, scope, subVars, newsletters>>
    /\ IF ~ArticleApprovalFormValid(st)
       THEN /\ last' = ApproveResponse(req[s].actor, req[s].art, req[s].publisher,
                                       "form_invalid")
            /\ UNCHANGED articles
       ELSE /\ articles' = [articles EXCEPT ![req[s].art] =
                              approve(ConstructInstance(req[s].row, st, flag),
                                      req[s].actor)]
            /\ last' = ApproveResponse(req[s].actor, req[s].art, req[s].publisher,
                                       "approved")

\* article_detail: a read; a reader is refused an article that is not
\* published, everybody else is shown the article
article_detail(u, a) ==
    /\ UNCHANGED <<teamVars, articleVars, subVars, newsletters, req>>
    /\ IF ~Exists(a)
       THEN last' = [Response("article_detail", u, "not_found") EXCEPT !.art = a]
       ELSE IF is_reader(u) /\ articles[a].status # "published"
       THEN last' = [Response("article_detail", u, "not_published")
                       EXCEPT !.art = a, !.publisher = articles[a].publisher]
       ELSE last' = [Response("article_detail", u, "rendered")
                       EXCEPT !.art = a, !.publisher = articles[a].publisher]

----------------------------------------------------------------------------
(* The article workflow, one request at a time *)

\* who sends workflow requests: the author, both editors, and a reader
WorkflowActors == {"j1", "e1", "e2", "r1"}

\* the team requests of the workflow runs: the owner of P1 adds either editor,
\* the owner of P2 adds e2
TeamAdd ==
    \/ \E n \in {"e1", "e2"} : publisher_dashboard("p1", n, "editor")
    \/ publisher_dashboard("p2", "e2", "editor")

\* the team requests with one editor per publishing house
TeamAddOwn ==
    \/ publisher_dashboard("p1", "e1", "editor")
    \/ publisher_dashboard("p2", "e2", "editor")

\* the requests of the workflow runs.  The author and the editors send every
\* form; a reader, who is refused whatever the form holds, sends one
NextWorkflow ==
    \/ TeamAddOwn
    \/ \E pub \in PublisherIds \cup {None} : create_article("j1", pub, "text1")
    \/ create_article("j1", None, Blank)
    \/ create_article("r1", None, "text1")
    \/ \E u \in {"j1", "e1", "e2"}, a \in ArticleIds, pub \in PublisherIds \cup {None} :
          edit_article(u, a, pub, "text2", None)
    \/ \E u \in {"j1", "e1", "e2"}, a \in ArticleIds :
          edit_article(u, a, None, Blank, None)
    \/ \E a \in ArticleIds : edit_article("r1", a, None, "text2", None)
    \/ \E u \in {"j1", "e1"}, a \in ArticleIds :
          edit_article(u, a, None, "text2", "published")
    \/ \E u \in {"j1", "e1"}, a \in ArticleIds : submit(u, a)
    \/ \E u \in {"e1", "e2"}, a \in ArticleIds, st \in {"pending", Blank} :
          approve_article(u, a, st, FALSE)
    \/ \E u \in {"r1", "j1"}, a \in ArticleIds : approve_article(u, a, "published", TRUE)

SpecWorkflow == Init /\ [][NextWorkflow]_vars

\* edit_article and approve_article requests of two sessions, each in its
\* statements, that overlap each other and the team and submit requests
NextEditRace ==
    \/ publisher_dashboard("p1", "e1", "editor")
    \/ \E pub \in {"P1", None} : create_article("j1", pub, "text1")
    \/ \E s \in Sessions, u \in {"j1", "e1", "e2"}, a \in ArticleIds :
          edit_article_load(s, u, a)
    \/ \E s \in Sessions, pub \in {"P1", None}, c \in {"text2", Blank} :
          edit_article_save(s, pub, c, "published")
    \/ \E a \in ArticleIds : submit("j1", a)
    \/ \E s \in Sessions, a \in ArticleIds : approve_article_load(s, "e1", a)
    \/ \E s \in Sessions : approve_article_publisher(s)
    \/ \E s \in Sessions : approve_article_editors(s)
    \/ \E s \in Sessions : approve_article_save(s, "pending", FALSE)

SpecEditRace == Init /\ [][NextEditRace]_vars

\* approve_article requests of two sessions, overlapping
NextApprove ==
    \/ TeamAdd
    \/ \E pub \in PublisherIds \cup {None} : create_article("j1", pub, "text1")
    \/ \E a \in ArticleIds : submit("j1", a)
    \/ \E s \in Sessions, u \in {"e1", "e2"}, a \in ArticleIds :
          approve_article_load(s, u, a)
    \/ \E s \in Sessions : approve_article_publisher(s)
    \/ \E s \in Sessions : approve_article_editors(s)
    \/ \E s \in Sessions, st \in {"pending", Blank} :
          approve_article_save(s, st, FALSE)

SpecApprove == Init /\ [][NextApprove]_vars

\* who opens an article's page: a reader, the author, another journalist, both
\* editors, a publishing house's owner, and a staff user
DetailActors == {"r1", "j1", "j2", "e1", "e2", "p1", "a1"}

\* the article workflow with readers of the article's page
NextDetail ==
    \/ TeamAdd
    \/ \E pub \in PublisherIds \cup {None} : create_article("j1", pub, "text1")
    \/ \E a \in ArticleIds : submit("j1", a)
    \/ \E u \in {"e1", "e2"}, a \in ArticleIds : approve_article(u, a, "pending", FALSE)
    \/ \E u \in DetailActors, a \in ArticleIds : article_detail(u, a)

SpecDetail == Init /\ [][NextDetail]_vars

----------------------------------------------------------------------------
(* Subscriptions *)

SubIds == 1..MaxSubId

\* the choices of SubscriptionForm: any publisher, any user with role journalist
SubscriptionFieldsValid(p, j) ==
    /\ p \in DOMAIN owner \cup {None}
    /\ j = None \/ (j \in DOMAIN role /\ role[j] = "journalist")

\* a variant of SubscriptionForm.clean without its test
SubscriptionFormClean_NoTest(p, j) == TRUE

\* SubscriptionForm.clean: neither a publisher nor a journalist is an error
SubscriptionFormClean(p, j) == ~(p = None /\ j = None)

\* Subscription.clean (models.py / specification 3): not both at once
SubscriptionModelClean(p, j) == ~(p # None /\ j # None)

\* SubscriptionForm.is_valid()
SubscriptionFormValid(p, j) ==
    /\ SubscriptionFieldsValid(p, j)
    /\ SubscriptionFormClean(p, j)
    /\ SubscriptionModelClean(p, j)

\* a variant of the tests before get_or_create without the role test
SubscribeGate_AnyRole(u, p, j) ==
    IF ~SubscriptionFormValid(p, j) THEN "form_invalid"
    ELSE IF p = None /\ j = None THEN "no_target"
    ELSE "proceed"

\* subscription_management before get_or_create
SubscribeGate(u, p, j) ==
    IF ~is_reader(u) THEN "only_readers"
    ELSE IF ~SubscriptionFormValid(p, j) THEN "form_invalid"
    ELSE IF p = None /\ j = None THEN "no_target"
    ELSE "proceed"

\* the rows get(user=..., publisher=...) or get(user=..., journalist=...) finds:
\* the publisher is looked at first
Matching(u, p, j) ==
    IF p # None
    THEN {r \in subscriptions : r.user = u /\ r.publisher = p}
    ELSE {r \in subscriptions : r.user = u /\ r.journalist = j}

\* the row create(...) inserts, with defaults={'journalist': None} or
\* defaults={'publisher': None}
NewRow(id, u, p, j) ==
    IF p # None
    THEN [id |-> id, user |-> u, publisher |-> p, journalist |-> None]
    ELSE [id |-> id, user |-> u, publisher |-> None, journalist |-> j]

\* the uniqueness constraints of Subscription (models.py / specification 4.3):
\* (user, publisher) and (user, journalist)
UniqueViolation(row) ==
    \E r \in subscriptions :
        /\ r.user = row.user
        /\ \/ row.publisher # None /\ r.publisher = row.publisher
           \/ row.journalist # None /\ r.journalist = row.journalist

\* a variant that reports every outcome of get_or_create as a new subscription
SubscribeMessage_AlwaysSuccess(created) == "subscribed"

\* a variant that takes "created" the wrong way round
SubscribeMessage_Inverted(created) ==
    IF created THEN "already_subscribed" ELSE "subscribed"

\* the message for get_or_create's "created"
SubscribeMessage(created) ==
    IF created THEN "subscribed" ELSE "already_subscribed"

SubscribeResponse(u, p, j, outcome, existed, lost) ==
    [Response("subscribe", u, outcome)
        EXCEPT !.publisher = p, !.journalist = j, !.existed = existed, !.lost = lost]

\* the outcome of get(): one row, none (DoesNotExist), or MultipleObjectsReturned
GetOutcome(u, p, j) ==
    IF Matching(u, p, j) = {} THEN "none"
    ELSE IF Cardinality(Matching(u, p, j)) > 1 THEN "server_error"
    ELSE SubscribeMessage(FALSE)

\* subscription_management, the whole POST request
subscription_management(u, p, j) ==
    /\ UNCHANGED <<teamVars, articleVars, newsletters, req>>
    /\ IF SubscribeGate(u, p, j) # "proceed"
       THEN /\ last' = SubscribeResponse(u, p, j, SubscribeGate(u, p, j), FALSE, FALSE)
            /\ UNCHANGED subVars
       ELSE IF GetOutcome(u, p, j) # "none"
       THEN /\ last' = SubscribeResponse(u, p, j, GetOutcome(u, p, j), TRUE, FALSE)
            /\ UNCHANGED subVars
       ELSE IF UniqueViolation(NewRow(nextSubId, u, p, j))
       THEN /\ last' = SubscribeResponse(u, p, j, "integrity_error", FALSE, TRUE)
            /\ UNCHANGED subVars
       ELSE /\ nextSubId <= MaxSubId
            /\ subscriptions' = subscriptions \cup {NewRow(nextSubId, u, p, j)}
            /\ nextSubId' = nextSubId + 1
            /\ last' = SubscribeResponse(u, p, j, SubscribeMessage(TRUE), FALSE, FALSE)

\* subscription_management as the statements of get_or_create, for requests
\* that overlap: the form and the first get() ...
subscription_management_get(s, u, p, j) ==
    /\ req[s] = Idle
    /\ UNCHANGED <<teamVars, articleVars, subVars, newsletters>>
    /\ IF SubscribeGate(u, p, j) # "proceed"
       THEN /\ last' = SubscribeResponse(u, p, j, SubscribeGate(u, p, j), FALSE, FALSE)
            /\ UNCHANGED req
       ELSE IF GetOutcome(u, p, j) # "none"
       THEN /\ last' = SubscribeResponse(u, p, j, GetOutcome(u, p, j), TRUE, FALSE)
            /\ UNCHANGED req
       ELSE /\ req' = [req EXCEPT ![s] =
                         [Idle EXCEPT !.op = "subscribe", !.actor = u,
                                      !.publisher = p, !.journalist = j,
                                      !.pc = "create"]]
            /\ UNCHANGED last

\* ... the INSERT, which the uniqueness constraint may refuse ...
subscription_management_create(s) ==
    LET r == req[s] IN
    /\ r.op = "subscribe"
    /\ r.pc = "create"
    /\ UNCHANGED <<teamVars, articleVars, newsletters>>
    /\ IF UniqueViolation(NewRow(nextSubId, r.actor, r.publisher, r.journalist))
       THEN /\ req' = [req EXCEPT ![s].pc = "reget"]
            /\ UNCHANGED <<subVars, last>>
       ELSE /\ nextSubId <= MaxSubId
            /\ subscriptions' = subscriptions
                                  \cup {NewRow(nextSubId, r.actor, r.publisher, r.journalist)}
            /\ nextSubId' = nextSubId + 1
            /\ req' = [req EXCEPT ![s] = Idle]
            /\ last' = SubscribeResponse(r.actor, r.publisher, r.journalist,
                                         SubscribeMessage(TRUE), FALSE, FALSE)

\* ... and the second get() after an IntegrityError
subscription_management_reget(s) ==
    LET r == req[s] IN
    /\ r.op = "subscribe"
    /\ r.pc = "reget"
    /\ req' = [req EXCEPT ![s] = Idle]
    /\ UNCHANGED <<teamVars, articleVars, subVars, newsletters>>
    /\ last' = SubscribeResponse(r.actor, r.publisher, r.journalist,
                  IF GetOutcome(r.actor, r.publisher, r.journalist) = "none"
                  THEN "integrity_error"
                  ELSE GetOutcome(r.actor, r.publisher, r.journalist),
                  FALSE, TRUE)

\* a variant of the lookup that goes by primary key alone
OwnedSubscription_AnyUser(u, id) == {r \in subscriptions : r.id = id}

\* get_object_or_404(Subscription, pk=pk, user=request.user)
OwnedSubscription(u, id) == {r \in subscriptions : r.id = id /\ r.user = u}

\* delete_subscription: the row is looked up by primary key and owner; a row
\* of somebody else is a 404 like a row that does not exist
delete_subscription(u, id) ==
    LET found == OwnedSubscription(u, id) IN
    /\ UNCHANGED <<teamVars, articleVars, nextSubId, newsletters, req>>
    /\ IF found = {}
       THEN /\ last' = [Response("unsubscribe", u, "not_found") EXCEPT !.sub = id]
            /\ UNCHANGED subscriptions
       ELSE /\ subscriptions' = subscriptions \ found
            /\ last' = [Response("unsubscribe", u, "removed")
                          EXCEPT !.publisher = (CHOOSE r \in found : TRUE).publisher,
                                 !.journalist = (CHOOSE r \in found : TRUE).journalist,
                                 !.sub = id]

\* delete_subscription as two steps, for requests that overlap: the lookup ...
delete_subscription_load(s, u, id) ==
    LET found == OwnedSubscription(u, id) IN
    /\ req[s] = Idle
    /\ UNCHANGED <<teamVars, articleVars, subVars, newsletters>>
    /\ IF found = {}
       THEN /\ last' = [Response("unsubscribe", u, "not_found") EXCEPT !.sub = id]
            /\ UNCHANGED req
       ELSE /\ req' = [req EXCEPT ![s] =
                         [Idle EXCEPT !.op = "unsubscribe", !.actor = u,
                                      !.publisher = (CHOOSE r \in found : TRUE).publisher,
                                      !.journalist = (CHOOSE r \in found : TRUE).journalist,
                                      !.sub = id, !.pc = "delete"]]
            /\ UNCHANGED last

\* ... and subscription.delete(), a DELETE by primary key, which is no error
\* when the row is gone, and the success message
delete_subscription_delete(s) ==
    LET r == req[s] IN
    /\ r.op = "unsubscribe"
    /\ r.pc = "delete"
    /\ req' = [req EXCEPT ![s] = Idle]
    /\ UNCHANGED <<teamVars, articleVars, nextSubId, newsletters>>
    /\ subscriptions' = {row \in subscriptions : row.id # r.sub}
    /\ last' = [Response("unsubscribe", r.actor, "removed")
                  EXCEPT !.publisher = r.publisher, !.journalist = r.journalist,
                         !.sub = r.sub]

----------------------------------------------------------------------------
(* Newsletters *)

\* NewsletterForm.is_valid(): a publisher of the table
NewsletterFormValid(pub) == pub \in DOMAIN owner

\* create_newsletter: only journalists; created_at is the time of the insert,
\* so the table is kept here in order of created_at
create_newsletter(u, pub) ==
    /\ Len(newsletters) < MaxNewsletters
    /\ UNCHANGED <<teamVars, articleVars, subVars, req>>
    /\ IF ~is_journalist(u)
       THEN /\ last' = Response("create_newsletter", u, "only_journalists")
            /\ UNCHANGED newsletters
       ELSE IF ~NewsletterFormValid(pub)
       THEN /\ last' = Response("create_newsletter", u, "form_invalid")
            /\ UNCHANGED newsletters
       ELSE /\ newsletters' = Append(newsletters, [author |-> u, publisher |-> pub])
            /\ last' = [Response("create_newsletter", u, "created")
                          EXCEPT !.publisher = pub]

\* order_by('-created_at') of a set of newsletters (their positions in the table)
RECURSIVE DescendingFrom(_, _)
DescendingFrom(S, k) ==
    IF k = 0 THEN <<>>
    ELSE IF k \in S THEN <<k>> \o DescendingFrom(S, k - 1)
    ELSE DescendingFrom(S, k - 1)

Descending(S) == DescendingFrom(S, Len(newsletters))

\* a slice [:n]
Take(seq, n) == SubSeq(seq, 1, IF Len(seq) < n THEN Len(seq) ELSE n)

\* [s.publisher for s in subs if s.publisher]
SubscribedPublishers(u) ==
    {r.publisher : r \in {x \in subscriptions : x.user = u /\ x.publisher # None}}

\* [s.journalist for s in subs if s.journalist]
SubscribedJournalists(u) ==
    {r.journalist : r \in {x \in subscriptions : x.user = u /\ x.journalist # None}}

\* a variant of the reader's filter that forgets the author__in branch
VisibleNewsletters_PublisherOnly(u) ==
    {n \in 1..Len(newsletters) : newsletters[n].publisher \in SubscribedPublishers(u)}

\* Q(publisher__in=publishers) | Q(author__in=journalists), on the table as
\* it is when the query runs
NewsletterFilter(pubs, jours) ==
    {n \in 1..Len(newsletters) :
        \/ newsletters[n].publisher \in pubs
        \/ newsletters[n].author \in jours}

\* the reader's filter with the subscriptions of this moment
VisibleNewsletters(u) ==
    NewsletterFilter(SubscribedPublishers(u), SubscribedJournalists(u))

\* what newsletter_list renders for user u when nothing happens in between
NewsletterListing(u) ==
    IF is_authenticated(u) /\ is_journalist(u)
    THEN Descending({n \in 1..Len(newsletters) : newsletters[n].author = u})
    ELSE IF is_authenticated(u) /\ is_reader(u)
    THEN Take(Descending(VisibleNewsletters(u)), PageSize)
    ELSE Take(Descending(1..Len(newsletters)), GuestPageSize)

\* newsletter_list: a read; only the response changes
newsletter_list(u) ==
    /\ UNCHANGED <<teamVars, articleVars, subVars, newsletters, req>>
    /\ last' = [Response("newsletter_list", u, "rendered")
                  EXCEPT !.listing = NewsletterListing(u)]

\* newsletter_list as two steps, for requests that overlap others: a reader's
\* subscriptions are read into the two lists when the view runs ...
newsletter_list_subs(s, u) ==
    /\ req[s] = Idle
    /\ UNCHANGED <<teamVars, articleVars, subVars, newsletters>>
    /\ IF is_authenticated(u) /\ ~is_journalist(u) /\ is_reader(u)
       THEN /\ req' = [req EXCEPT ![s] =
                         [Idle EXCEPT !.op = "newsletter_list", !.actor = u,
                                      !.publishers = SubscribedPublishers(u),
                                      !.journalists = SubscribedJournalists(u),
                                      !.pc = "render"]]
            /\ UNCHANGED last
       ELSE /\ last' = [Response("newsletter_list", u, "rendered")
                          EXCEPT !.listing = NewsletterListing(u)]
            /\ UNCHANGED req

\* ... and the newsletter query, lazy, runs when the template is rendered
newsletter_list_render(s) ==
    LET r == req[s] IN
    /\ r.op = "newsletter_list"
    /\ r.pc = "render"
    /\ req' = [req EXCEPT ![s] = Idle]
    /\ UNCHANGED <<teamVars, articleVars, subVars, newsletters>>
    /\ last' = [Response("newsletter_list", r.actor, "rendered")
                  EXCEPT !.listing =
                     Take(Descending(NewsletterFilter(r.publishers, r.journalists)),
                          PageSize)]

----------------------------------------------------------------------------
(* The reader's side, one request at a time *)

\* who sends subscription requests: two readers, and a journalist
SubscriptionActors == {"r1", "r2", "j1"}

\* the journalist field as POSTed: two journalists, a user who is no journalist,
\* or nothing
JournalistInputs == {"j1", "j2", "e1", None}

NextSubscription ==
    \/ \E u \in SubscriptionActors, p \in PublisherIds \cup {None}, j \in JournalistInputs :
          subscription_management(u, p, j)
    \/ \E u \in SubscriptionActors, id \in SubIds : delete_subscription(u, id)

SpecSubscription == Init /\ [][NextSubscription]_vars

\* unsubscribe and subscribe requests of two sessions, each in its
\* statements, overlapping each other
NextUnsubscribeRace ==
    \/ \E s \in Sessions, u \in {"r1", "r2"}, p \in {"P1", None}, j \in {"j1", None} :
          subscription_management_get(s, u, p, j)
    \/ \E s \in Sessions : subscription_management_create(s)
    \/ \E s \in Sessions : subscription_management_reget(s)
    \/ \E s \in Sessions, u \in SubscriptionActors, id \in SubIds :
          delete_subscription_load(s, u, id)
    \/ \E s \in Sessions : delete_subscription_delete(s)

SpecUnsubscribeRace == Init /\ [][NextUnsubscribeRace]_vars

\* subscriptions together with newsletters and the newsletter list, one
\* request at a time: reader r1 subscribes and unsubscribes freely; the first
\* newsletters are of either publisher, and journalist j1 goes on writing for
\* P1 until the table holds more than a page
NextNewsletter ==
    \/ \E p \in {"P1", None}, j \in {"j1", None} : subscription_management("r1", p, j)
    \/ \E id \in SubIds : delete_subscription("r1", id)
    \/ /\ Len(newsletters) < MixedNewsletters
       /\ \E pub \in PublisherIds \cup {None} : create_newsletter("j1", pub)
    \/ /\ Len(newsletters) < MixedNewsletters
       /\ create_newsletter("r1", "P1")
    \/ /\ Len(newsletters) >= MixedNewsletters
       /\ create_newsletter("j1", "P1")
    \/ \E u \in {"r1", "j1", AnonymousUser} : newsletter_list(u)

SpecNewsletter == Init /\ [][NextNewsletter]_vars

\* newsletter_list, subscribe and unsubscribe requests of two sessions, each
\* in its statements, overlapping each other and the create_newsletter
\* requests (one INSERT each)
NextNewsletterRace ==
    \/ \E s \in Sessions, p \in {"P1", None}, j \in {"j1", None} :
          subscription_management_get(s, "r1", p, j)
    \/ \E s \in Sessions : subscription_management_create(s)
    \/ \E s \in Sessions : subscription_management_reget(s)
    \/ \E s \in Sessions, id \in SubIds : delete_subscription_load(s, "r1", id)
    \/ \E s \in Sessions : delete_subscription_delete(s)
    \/ /\ Len(newsletters) < MixedNewsletters
       /\ \E pub \in PublisherIds : create_newsletter("j1", pub)
    \/ \E s \in Sessions, u \in {"r1", "j1", AnonymousUser} : newsletter_list_subs(s, u)
    \/ \E s \in Sessions : newsletter_list_render(s)

SpecNewsletterRace == Init /\ [][NextNewsletterRace]_vars

\* subscribe requests of two sessions of the same reader, overlapping
NextSubscribeRace ==
    \/ \E s \in Sessions, p \in PublisherIds \cup {None}, j \in JournalistInputs :
          subscription_management_get(s, "r1", p, j)
    \/ \E s \in Sessions : subscription_management_create(s)
    \/ \E s \in Sessions : subscription_management_reget(s)

SpecSubscribeRace == Init /\ [][NextSubscribeRace]_vars


----------------------------------------------------------------------------
(* Properties of the article workflow *)

AllowedTransitions ==
    {<<"draft", "pending">>, <<"pending", "published">>, <<"pending", "rejected">>}

\* a step in which a request is answered: a request handled in one step, or
\* the last step of a request in flight
Answered == req' = req \/ \E s \in Sessions : req[s] # Idle /\ req'[s] = Idle

\* C1: an article's status changes only along draft -> pending -> {published,
\* rejected}; no request takes draft straight to published or rejected, and
\* none takes a published or rejected article back to draft or pending.
C1_StatusFollowsWorkflow ==
    [][\A a \in 1..Len(articles) :
          articles'[a].status # articles[a].status
             => <<articles[a].status, articles'[a].status>> \in AllowedTransitions]_vars

\* C2: an approve request on an article whose publisher is null is denied for
\* every actor, editors included, and leaves the status as it was.
C2_NoPublisherAlwaysDenied ==
    (last.op = "approve_article" /\ Exists(last.art) /\ last.publisher = None)
        => last.outcome # "approved"

\* C3: of the approve requests on a pending article, overlapping or one after
\* another, one writes the approval; a request that loaded the article as
\* pending and reaches its write after another approval has landed is refused
\* and does not overwrite the status and the approved_by/approved_at marker.
C3_SingleApproval ==
    [][\A s \in Sessions :
          (/\ req[s].op = "approve_article"
           /\ req[s].pc = "save"
           /\ req'[s] = Idle
           /\ last'.outcome = "approved"
           /\ req[s].row.status = "pending")
             => (/\ articles[req[s].art].status = "pending"
                 /\ articles[req[s].art].approved_by = None)]_vars

\* C4: an approve request on an article that has a publisher succeeds only if
\* the actor has role editor and is in that publisher's editor set; readers and
\* editors of other publishers only are denied.
C4_ApproveOnlyByPublisherEditor ==
    (last.op = "approve_article" /\ last.outcome = "approved" /\ last.publisher # None)
        => (role[last.actor] = "editor" /\ last.actor \in editors[last.publisher])

\* C4 witness: an approval of an article that has a publisher has succeeded,
\* while another editor and a reader were around to be refused.
C4_Witness ==
    /\ last.op = "approve_article"
    /\ last.outcome = "approved"
    /\ last.publisher # None
    /\ \E e \in UserIds : role[e] = "editor" /\ e \notin editors[last.publisher]

\* C5: an article scoped to a publisher becomes published only through an
\* approval by an editor of that publisher: an editor outside its editor set
\* cannot get it published by their own edit and approve requests.
C5_ApprovalPublisherScoped ==
    [][\A a \in 1..Len(articles) :
          (/\ articles'[a].status = "published"
           /\ articles[a].status # "published"
           /\ scope[a] # None)
             => articles'[a].approved_by \in editors[scope[a]]]_vars

----------------------------------------------------------------------------
(* Properties of subscriptions and the newsletter list *)

Range(seq) == {seq[i] : i \in 1..Len(seq)}

\* C6: subscribe is idempotent: a request for a target the reader already
\* follows leaves exactly one row for (reader, target) and is answered
\* "already subscribed", neither as a new subscription nor as an error; a
\* request that subscribes leaves exactly one row too.
C6_SubscribeIdempotent ==
    /\ (last.op = "subscribe" /\ last.existed)
          => last.outcome = "already_subscribed"
    /\ (last.op = "subscribe" /\ last.outcome \in {"subscribed", "already_subscribed"})
          => Cardinality(Matching(last.actor, last.publisher, last.journalist)) = 1

\* C6 witness: the reader has asked again for a target already followed
C6_Witness ==
    /\ last.op = "subscribe"
    /\ last.existed
    /\ last.outcome = "already_subscribed"
    /\ Cardinality(subscriptions) >= 1

\* C7: under any interleaving of two subscribe requests of one reader for one
\* target there is at most one row for (reader, target) in every state, and the
\* request that loses the race is answered "already subscribed", not an error.
C7_NoDuplicateUnderRace ==
    /\ \A x, y \in subscriptions :
          (x.user = y.user /\ x.publisher = y.publisher /\ x.journalist = y.journalist)
             => x = y
    /\ (last.op = "subscribe" /\ last.lost) => last.outcome = "already_subscribed"

\* C7 witness: a request has lost the race against the other session's insert
C7_Witness ==
    /\ last.op = "subscribe"
    /\ last.lost
    /\ \E r \in subscriptions :
          r.user = last.actor /\ r.publisher = last.publisher
             /\ (last.publisher # None \/ r.journalist = last.journalist)

Ambiguous(p, j) == (p # None /\ j # None) \/ (p = None /\ j = None)

\* C8: a subscribe request that names both a publisher and a journalist, or
\* neither, fails, and creates no Subscription row.
C8_AmbiguousTargetFails ==
    /\ []((last.op = "subscribe" /\ Ambiguous(last.publisher, last.journalist))
             => last.outcome \in {"form_invalid", "only_readers"})
    /\ [][(last'.op = "subscribe" /\ Ambiguous(last'.publisher, last'.journalist))
             => subscriptions' = subscriptions]_vars

\* C8 witness: a reader has asked for a publisher and a journalist at once, and
\* another time for neither
C8_Witness ==
    /\ last.op = "subscribe"
    /\ is_reader(last.actor)
    /\ last.publisher # None
    /\ last.journalist # None
    /\ role[last.journalist] = "journalist"
    /\ last.outcome = "form_invalid"

\* C9: every newsletter in a reader's newsletter list has a publisher the reader
\* holds a publisher-subscription to or an author the reader holds a
\* journalist-subscription to, newest first; and two calls with no change of
\* state in between return the same sequence.
C9_ListOnlySubscribed ==
    /\ []((/\ last.op = "newsletter_list"
           /\ is_authenticated(last.actor)
           /\ is_reader(last.actor))
            => /\ \A i \in 1..Len(last.listing) :
                    \E r \in subscriptions :
                       /\ r.user = last.actor
                       /\ \/ r.publisher # None
                             /\ r.publisher = newsletters[last.listing[i]].publisher
                          \/ r.journalist # None
                             /\ r.journalist = newsletters[last.listing[i]].author
               /\ \A i, k \in 1..Len(last.listing) :
                    i < k => last.listing[i] > last.listing[k])
    /\ [][(/\ last.op = "newsletter_list"
           /\ last'.op = "newsletter_list"
           /\ last'.actor = last.actor
           /\ UNCHANGED <<role, subscriptions, newsletters>>)
             => last'.listing = last.listing]_vars

\* the newsletters newer than n that a subscription row of reader u makes
\* visible
NewerVisible(u, n) ==
    {m \in (n + 1)..Len(newsletters) :
        \E r \in subscriptions :
           /\ r.user = u
           /\ \/ r.publisher # None /\ r.publisher = newsletters[m].publisher
              \/ r.journalist # None /\ r.journalist = newsletters[m].author}

\* C10 as claimed: after the reader has subscribed to journalist J every
\* newsletter written by J is in the reader's list, and once the reader has
\* deleted that subscription no newsletter written by J is in the list.
C10_AppearsThenGone ==
    LET listed == Range(NewsletterListing(last.actor)) IN
    /\ (/\ last.op = "subscribe"
        /\ last.outcome \in {"subscribed", "already_subscribed"}
        /\ last.journalist # None)
          => \A n \in 1..Len(newsletters) :
                newsletters[n].author = last.journalist
                   => n \in listed
    /\ (last.op = "unsubscribe" /\ last.outcome = "removed" /\ last.journalist # None)
          => \A n \in 1..Len(newsletters) :
                newsletters[n].author = last.journalist
                   => n \notin listed

\* C10, amended: after reader R subscribes to journalist J a newsletter
\* written by J is in R's list exactly if fewer than a page (50) of the
\* newsletters visible to R are newer; after R deletes that subscription a
\* newsletter written by J is in R's list only if R holds a subscription to
\* its publisher.
C10_ListFollowsJournalistSubscription ==
    LET listed == Range(NewsletterListing(last.actor)) IN
    /\ (/\ last.op = "subscribe"
        /\ last.outcome \in {"subscribed", "already_subscribed"}
        /\ last.journalist # None)
          => \A n \in 1..Len(newsletters) :
                newsletters[n].author = last.journalist
                   => (n \in listed
                         <=> Cardinality(NewerVisible(last.actor, n)) < PageSize)
    /\ (last.op = "unsubscribe" /\ last.outcome = "removed" /\ last.journalist # None)
          => \A n \in 1..Len(newsletters) :
                (/\ newsletters[n].author = last.journalist
                 /\ n \in listed)
                   => \E r \in subscriptions :
                         r.user = last.actor /\ r.publisher = newsletters[n].publisher

\* C10 witness: the reader has subscribed to J while the table holds more
\* than a page of J's newsletters: the newest are in the list, the oldest has
\* dropped off the page
C10_Witness ==
    /\ last.op = "subscribe"
    /\ last.outcome = "subscribed"
    /\ last.journalist # None
    /\ Len(NewsletterListing(last.actor)) = PageSize
    /\ \E n, m \in 1..Len(newsletters) :
          /\ newsletters[n].author = last.journalist
          /\ newsletters[m].author = last.journalist
          /\ n \in Range(NewsletterListing(last.actor))
          /\ m \notin Range(NewsletterListing(last.actor))
          /\ Cardinality(NewerVisible(last.actor, m)) >= PageSize

----------------------------------------------------------------------------
(* Properties of unsubscribing and of editing *)

\* C11: an unsubscribe request for a subscription that is not the requesting
\* user's is answered "not found" and leaves the table as it was; a row leaves
\* the table only through an unsubscribe request of its own user, a reader.
C11_UnsubscribeOnlyByOwner ==
    /\ [][last'.op = "unsubscribe" /\ last'.outcome = "not_found"
             => subscriptions' = subscriptions]_vars
    /\ [][\A r \in subscriptions \ subscriptions' :
             /\ last'.op = "unsubscribe"
             /\ last'.outcome = "removed"
             /\ last'.actor = r.user
             /\ last'.sub = r.id
             /\ is_reader(r.user)]_vars
    /\ []((last.op = "unsubscribe" /\ last.outcome = "removed")
             => \A r \in subscriptions : r.id # last.sub)
    /\ []((last.op = "unsubscribe"
            /\ \E r \in subscriptions : r.id = last.sub /\ r.user # last.actor)
             => last.outcome = "not_found")

\* C11 witness: a reader has asked to delete another reader's subscription,
\* which is still there
C11_Witness ==
    /\ last.op = "unsubscribe"
    /\ last.outcome = "not_found"
    /\ is_reader(last.actor)
    /\ \E r \in subscriptions : r.id = last.sub /\ r.user # last.actor

\* C12: an edit request succeeds only if the actor is the article's author or
\* is in the editor set of the publisher the article has; an editor outside
\* that set, and any editor when the article has no publisher, is denied.
C12_EditOnlyByAuthorOrPublisherEditor ==
    (last.op = "edit_article" /\ last.outcome = "updated")
        => \/ last.actor = articles[last.art].author
           \/ last.publisher # None /\ last.actor \in editors[last.publisher]

\* C13: an edit request is accepted only on a draft or pending article; on a
\* published or rejected article it is refused and changes nothing.
C13_EditOnlyNonTerminal ==
    [][(/\ last'.op = "edit_article"
        /\ Exists(last'.art)
        /\ articles[last'.art].status \in {"published", "rejected"})
          => (last'.outcome # "updated" /\ articles' = articles)]_vars

\* C14: an edit request that succeeds leaves the article's status, is_approved
\* flag and author as they were, whatever the POST data holds, and leaves
\* every other article alone.
C14_EditKeepsStatus ==
    [][(Answered /\ last'.op = "edit_article" /\ last'.outcome = "updated")
          => /\ Len(articles') = Len(articles)
             /\ \A a \in 1..Len(articles) :
                   /\ articles'[a].status = articles[a].status
                   /\ articles'[a].is_approved = articles[a].is_approved
                   /\ articles'[a].author = articles[a].author
                   /\ articles'[a].approved_by = articles[a].approved_by
                   /\ a # last'.art => articles'[a] = articles[a]]_vars

\* C15: an article that is not published is shown by article_detail only to its
\* author, to an editor of its publisher, or to staff; readers, other
\* journalists, publisher-role users and editors of other publishers are denied.
C15_UnpublishedViewRestricted ==
    (/\ last.op = "article_detail"
     /\ last.outcome = "rendered"
     /\ articles[last.art].status # "published")
        => \/ last.actor = articles[last.art].author
           \/ last.publisher # None /\ last.actor \in editors[last.publisher]
           \/ staff_required(last.actor)

----------------------------------------------------------------------------
(* Properties of the teams and the Publisher records *)

\* C16: a publisher's editor set or journalist set gains a member only through
\* a request of that publisher's owner; no request of anybody else, a new
\* user's registration included, adds a member to a team.
C16_TeamOnlyByOwner ==
    [][\A p \in DOMAIN owner :
          (editors'[p] # editors[p] \/ journalists'[p] # journalists[p])
             => (last'.op = "add_member" /\ last'.actor = owner[p])]_vars

\* C17: a Publisher record is created or edited only by a request of a staff
\* user; no request of a non-staff user, registration with role publisher
\* included, creates a Publisher record.
C17_PublisherOnlyByStaff ==
    [][(DOMAIN owner' # DOMAIN owner \/ \E p \in DOMAIN owner : owner'[p] # owner[p])
          => staff_required(last'.actor)]_vars

\* C19: every member of an editor set has role editor and every member of a
\* journalist set has role journalist; a request to add a user whose role does
\* not match, from the dashboard or at registration, adds nobody to either
\* set (the dashboard answers with an error); a request to add a user who is a
\* member already leaves the sets as they are and is answered with the
\* warning, neither as added nor as an error.
C19_TeamRolesMatch ==
    /\ [](\A p \in DOMAIN owner :
             /\ \A u \in editors[p] : role[u] = "editor"
             /\ \A u \in journalists[p] : role[u] = "journalist")
    /\ [][(/\ Answered
           /\ last'.op \in {"add_member", "register"}
           /\ last'.member \in DOMAIN role'
           /\ role'[last'.member] # last'.team)
             => /\ \A p \in DOMAIN owner :
                      editors'[p] = editors[p] /\ journalists'[p] = journalists[p]
                /\ last'.op = "add_member"
                      => last'.outcome \in {"role_mismatch", "form_invalid"}]_vars
    /\ [][(/\ Answered
           /\ last'.op = "add_member"
           /\ last'.publisher # None
           /\ last'.member \in DOMAIN role
           /\ \/ last'.team = "editor" /\ last'.member \in editors[last'.publisher]
              \/ last'.team = "journalist" /\ last'.member \in journalists[last'.publisher])
             => /\ last'.outcome = "already_member"
                /\ editors' = editors
                /\ journalists' = journalists]_vars

\* C20: the owner of a publisher stays the user it had when the publisher was
\* created, a user with role publisher, whatever publisher_create,
\* publisher_edit, register and publisher_dashboard requests follow.
C20_OwnerFixed ==
    /\ [][\A p \in DOMAIN owner : owner'[p] = owner[p]]_vars
    /\ [](\A p \in DOMAIN owner : owner[p] # None => role[owner[p]] = "publisher")

----------------------------------------------------------------------------
(* Properties of the password reset *)

\* C18: a reset token is single-use: once a reset_password request with the
\* token has changed the password the token is marked used, and every later
\* request with that token is rejected and changes no password; of two
\* overlapping requests with one token at most one changes the password.
C18_TokenSingleUse ==
    /\ []((last.op = "reset_password" /\ last.outcome = "reset")
             => tokens[last.token].is_used)
    /\ [][\A s \in Sessions :
             (/\ req[s].op = "reset_password"
              /\ req'[s] # req[s]
              /\ tokens[req[s].token].is_used)
                => /\ password' = password
                   /\ req'[s] = Idle => last'.outcome # "reset"]_vars
    /\ [][\A u \in DOMAIN password :
             password'[u] # password[u]
                => \E s \in Sessions :
                      /\ req[s].op = "reset_password"
                      /\ req'[s] # req[s]
                      /\ tokens[req[s].token].user = u
                      /\ ~tokens[req[s].token].is_used]_vars

----------------------------------------------------------------------------
(* Properties of the Subscription table *)

\* C21: in every reachable state every Subscription row belongs to a user with
\* role reader and names exactly one of publisher and journalist, never both
\* and never neither, whatever publisher and journalist fields the subscribe
\* requests carried.
C21_SubscriptionWellFormed ==
    \A r \in subscriptions :
        /\ r.user \in DOMAIN role
        /\ is_reader(r.user)
        /\ (r.publisher # None) # (r.journalist # None)

\* C21 witness: the table holds a publisher row and a journalist row, and the
\* latest request, of a user who is no reader, was refused
C21_Witness ==
    /\ \E r \in subscriptions : r.publisher # None
    /\ \E r \in subscriptions : r.journalist # None
    /\ last.op = "subscribe"
    /\ ~is_reader(last.actor)
    /\ last.outcome = "only_readers"

====
